---- MODULE Spec2Model ----
(***************************************************************************)
(* Verification model of the weather portal core:                          *)
(*   - WeatherCache (TTL cache with error backoff), services/weather_service.py *)
(*   - WeatherService.fetch_weather_data and _fetch_from_api               *)
(* Time is counted in whole seconds.  Optional values (Python None or a    *)
(* value) are the tuples <<>> and <<v>>.                                   *)
(***************************************************************************)
EXTENDS Integers, Sequences, FiniteSets, TLC

VARIABLES
    cache,   \* the WeatherCache singleton: _data, _last_fetch, _last_success, _fetch_errors, _backoff_until
    now,     \* datetime.now(), in seconds
    call,    \* the call completed at the current instant, if any: operation, arguments, return value
    hist,    \* history of the mutating cache calls (record_error / set)
    lock,    \* WeatherCache._lock: the thread that holds it, or NoThread
    pc,      \* per request thread: the statement of fetch_weather_data it is at
    loc,     \* per request thread: its local variables
    writer,  \* per cache field: the thread whose set() wrote it last, and when
             \* the request of the cached data was issued
    inp,     \* the arguments of a call of a metrics or interval function
    out      \* the result of that call

vars == <<cache, now, call, hist, lock, pc, loc, writer, inp, out>>

(* the variables of the calls of the pure functions *)
pure == <<inp, out>>

(* the variables of the request threads *)
thr == <<lock, pc, loc, writer>>

----------------------------------------------------------------------------
(* Bounds of the model *)
MaxNow == 360
MaxErrors == 7
ThreadMaxNow == 120
ThreadMaxErrors == 4

(* Steps by which the clock advances *)
TickSteps == {60}

(* The request threads *)
Threads == {"t1", "t2"}
NoThread == "none"

----------------------------------------------------------------------------
(* Optional values *)
None == <<>>
Some(x) == <<x>>

(* Python truthiness of an Optional[List] *)
Truthy(o) == o # None /\ Len(o[1]) > 0

RECURSIVE Pow2(_)
Pow2(k) == IF k <= 0 THEN 1 ELSE 2 * Pow2(k - 1)

Min(a, b) == IF a <= b THEN a ELSE b

----------------------------------------------------------------------------
(* WeatherService._cache = WeatherCache(ttl_seconds=60, stale_ttl_seconds=300) *)
ttl_seconds == 60
stale_ttl_seconds == 300
max_errors_before_backoff == 3

(* WeatherCache.__init__ *)
WeatherCache ==
    [data |-> None, last_fetch |-> None, last_success |-> None,
     fetch_errors |-> 0, backoff_until |-> None]

(* is_fresh = self._last_fetch and (now - self._last_fetch) < self._ttl *)
IsFresh(c, t) == c.last_fetch # None /\ (t - c.last_fetch[1]) < ttl_seconds

(* WeatherCache.get: (data, is_fresh, last_success) *)
get(c, t) ==
    IF c.data = None
    THEN [data |-> None, is_fresh |-> FALSE, last_success |-> None]
    ELSE [data |-> c.data, is_fresh |-> IsFresh(c, t), last_success |-> c.last_success]

(* set that does not stamp the fetch time *)
set_no_fetch_stamp(c, d, success, t) ==
    LET c1 == [c EXCEPT !.data = Some(d)]
    IN  IF success /\ Len(d) > 0
        THEN [c1 EXCEPT !.last_success = Some(t), !.fetch_errors = 0, !.backoff_until = None]
        ELSE c1

(* set that clears the error state whatever it is given *)
set_resets_always(c, d, success, t) ==
    [c EXCEPT !.data = Some(d), !.last_fetch = Some(t), !.last_success = Some(t),
              !.fetch_errors = 0, !.backoff_until = None]

(* set that leaves the backoff in place on success *)
set_keeps_backoff(c, d, success, t) ==
    LET c1 == [c EXCEPT !.data = Some(d), !.last_fetch = Some(t)]
    IN  IF success /\ Len(d) > 0
        THEN [c1 EXCEPT !.last_success = Some(t), !.fetch_errors = 0]
        ELSE c1

(* WeatherCache.set *)
set(c, d, success, t) ==
    LET c1 == [c EXCEPT !.data = Some(d), !.last_fetch = Some(t)]
    IN  IF success /\ Len(d) > 0
        THEN [c1 EXCEPT !.last_success = Some(t), !.fetch_errors = 0, !.backoff_until = None]
        ELSE c1

(* the backoff window without the cap *)
BackoffSecondsUncapped(n) == 60 * Pow2(n - max_errors_before_backoff)

(* backoff_seconds = min(60 * (2 ** (errors - max_errors_before_backoff)), 300) *)
BackoffSeconds(n) == Min(60 * Pow2(n - max_errors_before_backoff), 300)

(* record_error that also stamps the fetch time *)
record_error_touch(c, t) ==
    LET n == c.fetch_errors + 1
    IN  IF n >= max_errors_before_backoff
        THEN [c EXCEPT !.fetch_errors = n, !.last_fetch = Some(t),
                       !.backoff_until = Some(t + BackoffSeconds(n))]
        ELSE [c EXCEPT !.fetch_errors = n, !.last_fetch = Some(t)]

(* WeatherCache.record_error *)
record_error(c, t) ==
    LET n == c.fetch_errors + 1
    IN  IF n >= max_errors_before_backoff
        THEN [c EXCEPT !.fetch_errors = n, !.backoff_until = Some(t + BackoffSeconds(n))]
        ELSE [c EXCEPT !.fetch_errors = n]

(* should_fetch that never leaves a backoff *)
should_fetch_backoff_forever(c, t) ==
    IF c.backoff_until # None
    THEN FALSE
    ELSE IF c.last_fetch = None
         THEN TRUE
         ELSE (t - c.last_fetch[1]) >= ttl_seconds

(* should_fetch without the backoff check *)
should_fetch_no_backoff(c, t) ==
    IF c.last_fetch = None THEN TRUE ELSE (t - c.last_fetch[1]) >= ttl_seconds

(* WeatherCache.should_fetch *)
should_fetch(c, t) ==
    IF c.backoff_until # None /\ t < c.backoff_until[1]
    THEN FALSE
    ELSE IF c.last_fetch = None
         THEN TRUE
         ELSE (t - c.last_fetch[1]) >= ttl_seconds

(* get_stale_data that gives nothing once the stale window has passed *)
get_stale_data_expiring(c, t) ==
    IF c.data = None
    THEN None
    ELSE IF c.last_success # None /\ (t - c.last_success[1]) < stale_ttl_seconds
         THEN c.data
         ELSE None

(* WeatherCache.get_stale_data *)
get_stale_data(c, t) ==
    IF c.data = None
    THEN None
    ELSE IF c.last_success # None /\ (t - c.last_success[1]) < stale_ttl_seconds
         THEN c.data
         ELSE c.data

----------------------------------------------------------------------------
(* Raw JSON field values: a number, a string that float() parses, a string *)
(* that float() rejects, and null.                                         *)
Num(n) == [t |-> "float", n |-> n]
NumStr(n) == [t |-> "numstr", n |-> n]
BadStr == [t |-> "badstr", n |-> 0]
Null == [t |-> "null", n |-> 0]

(* float(v): the value, or the fact that ValueError/TypeError is raised *)
FloatRaises(v) == v.t = "badstr"
Float(v) == Num(v.n)

(* str(wind_dir).strip().upper() on the wind directions of the model *)
StripUpper(s) ==
    CASE s = " ne " -> "NE"
      [] s = "sw"   -> "SW"
      [] OTHER      -> s

(* A reading of the upstream payload: a JSON object, or a JSON number *)
Reading(wl, temp, wind) ==
    [dict |-> TRUE, WaterLevel |-> wl, Temperature |-> temp, WindDirection |-> wind]
NotADict == [dict |-> FALSE, WaterLevel |-> Null, Temperature |-> Null, WindDirection |-> "null"]

RawGood == Reading(Num(7), Num(30), "NE")
RawStrings == Reading(NumStr(9), NumStr(31), " ne ")
RawBad == Reading(BadStr, BadStr, "null")

(* one float field of _sanitize_reading *)
SanitizeField(v, critical) ==
    IF v.t = "null" THEN v
    ELSE IF FloatRaises(v) THEN (IF critical THEN Null ELSE Num(0))
    ELSE Float(v)

(* WeatherService._sanitize_reading (of a JSON object) *)
sanitize_reading(r) ==
    [dict |-> TRUE,
     WaterLevel |-> SanitizeField(r.WaterLevel, TRUE),
     Temperature |-> SanitizeField(r.Temperature, FALSE),
     WindDirection |-> IF r.WindDirection = "null" THEN "null" ELSE StripUpper(r.WindDirection)]

(* `field in reading` raises TypeError when the reading is a JSON number *)
SanitizeRaises(items) == \E i \in 1..Len(items) : ~items[i].dict

SanitizeAll(items) == [i \in 1..Len(items) |-> sanitize_reading(items[i])]

----------------------------------------------------------------------------
(* Outcomes of the upstream HTTP GET *)
Payloads == { <<>>, <<RawGood>>, <<RawStrings, RawBad>>, <<RawGood, NotADict>> }

Outcome(kind, shape, items) == [kind |-> kind, shape |-> shape, items |-> items]

Outcomes ==
    {Outcome(k, "none", <<>>) : k \in {"timeout", "connection_error", "http_error", "invalid_json"}}
    \cup {Outcome("json", s, p) : s \in {"list", "dict_data_list"}, p \in Payloads}
    \cup {Outcome("json", s, <<>>) : s \in {"dict_data_other", "dict_no_data", "scalar"}}

(* a JSON list, or an object whose data field is a list *)
WellFormed(o) == o.kind = "json" /\ o.shape \in {"list", "dict_data_list"}

(* The exception classes of the except clauses and their base classes *)
Bases(e) ==
    CASE e = "Timeout"          -> {"Timeout", "RequestException", "Exception"}
      [] e = "ConnectionError"  -> {"ConnectionError", "RequestException", "Exception"}
      [] e = "HTTPError"        -> {"HTTPError", "RequestException", "Exception"}
      [] e = "RequestException" -> {"RequestException", "Exception"}
      [] e = "ValueError"       -> {"ValueError", "Exception"}
      [] e = "TypeError"        -> {"TypeError", "Exception"}
      [] OTHER                  -> {e}

(* the body of the try block of _fetch_from_api: the exception raised, or the value *)
TryBody(o) ==
    CASE o.kind = "timeout"          -> [exc |-> "Timeout", value |-> None]
      [] o.kind = "connection_error" -> [exc |-> "ConnectionError", value |-> None]
      [] o.kind = "http_error"       -> [exc |-> "HTTPError", value |-> None]
      [] o.kind = "invalid_json"     -> [exc |-> "ValueError", value |-> None]
      [] OTHER ->
            IF ~(o.shape \in {"list", "dict_data_list"})
            THEN [exc |-> "none", value |-> None]
            ELSE IF SanitizeRaises(o.items)
                 THEN [exc |-> "TypeError", value |-> None]
                 ELSE [exc |-> "none", value |-> Some(SanitizeAll(o.items))]

(* the except clauses without the final `except Exception` *)
ExceptClausesNoCatchAll == {"Timeout", "RequestException", "ValueError"}

(* the except clauses of _fetch_from_api *)
ExceptClauses == {"Timeout", "RequestException", "ValueError", "Exception"}

(* WeatherService._fetch_from_api *)
fetch_from_api(o) ==
    LET r == TryBody(o)
    IN  IF r.exc = "none" THEN r
        ELSE IF Bases(r.exc) \cap ExceptClauses # {}
             THEN [exc |-> "none", value |-> None]
             ELSE r

----------------------------------------------------------------------------
(* WeatherService.fetch_weather_data, called at time t on cache c.          *)
(* The result holds the cache afterwards, the return value (Optional list), *)
(* the exception that propagates, and what the call did.                    *)
Result(c, ret, exc, requested, did_set, errors) ==
    [cache |-> c, ret |-> ret, exc |-> exc, requested |-> requested,
     did_set |-> did_set, errors |-> errors]

fetch_weather_data(c, force_refresh, o, t) ==
    LET g == get(c, t)
        cached_data == g.data
    IN  IF g.is_fresh /\ ~force_refresh
        THEN Result(c, cached_data, "none", FALSE, FALSE, 0)
        ELSE IF ~should_fetch(c, t) /\ ~force_refresh /\ Truthy(cached_data)
        THEN Result(c, cached_data, "none", FALSE, FALSE, 0)
        ELSE LET r == fetch_from_api(o)
                 fresh_data == r.value
             IN  IF r.exc # "none"
                 THEN Result(c, None, r.exc, TRUE, FALSE, 0)
                 ELSE IF Truthy(fresh_data)
                 THEN Result(set(c, fresh_data[1], TRUE, t), fresh_data, "none", TRUE, TRUE, 0)
                 ELSE LET c1 == record_error(c, t)
                          stale_data == get_stale_data(c1, t)
                      IN  IF Truthy(stale_data)
                          THEN Result(c1, stale_data, "none", TRUE, FALSE, 1)
                          ELSE Result(c1, Some(<<>>), "none", TRUE, FALSE, 1)

----------------------------------------------------------------------------
(* History of the mutating calls *)
(*   errs: record_error() calls since the last set() with success true   *)
(*   err_now: record_error() was called at the current instant, no set() since *)
(*   set_since_err: set() was called since the last record_error()          *)
(*   committed: set() was called with success true and non-empty data     *)
(*   since_commit: record_error() calls since the last such set()          *)
(*   healed: the upstream has recovered for good; the error counter then   *)
(*   recovered: set() stored a successful non-empty response since then    *)
NoHist ==
    [errs |-> 0, err_now |-> FALSE, set_since_err |-> FALSE, committed |-> FALSE,
     since_commit |-> 0, healed |-> None, recovered |-> FALSE]

HistError(h) ==
    [h EXCEPT !.errs = h.errs + 1, !.err_now = TRUE, !.set_since_err = FALSE,
              !.since_commit = h.since_commit + 1]

HistSet(h, d, success) ==
    [errs |-> IF success THEN 0 ELSE h.errs, err_now |-> FALSE, set_since_err |-> TRUE,
     committed |-> h.committed \/ (success /\ Len(d) > 0),
     since_commit |-> IF success /\ Len(d) > 0 THEN 0 ELSE h.since_commit,
     healed |-> h.healed,
     recovered |-> h.recovered \/ (h.healed # None /\ success /\ Len(d) > 0)]

HistTick(h) == [h EXCEPT !.err_now = FALSE]

NoCall == [op |-> "none", force |-> FALSE, outcome |-> Outcome("none", "none", <<>>),
           requested |-> FALSE, did_set |-> FALSE, errors |-> 0,
           ret |-> None, exc |-> "none"]

(* the local variables of fetch_weather_data and of the cache method it is  *)
(* in; issued_at is the instant at which its upstream request was issued    *)
NoLocals == [force |-> FALSE, cached_data |-> None, is_fresh |-> FALSE,
             fresh_data |-> None, t |-> 0, tmp |-> 0, seen |-> NoThread,
             issued_at |-> 0]

NoWriter == [data |-> NoThread, last_fetch |-> NoThread, last_success |-> NoThread,
             issued_at |-> 0]

(* no metrics or interval function has been called *)
NoInput == [fn |-> "none"]
NoOutput == [fn |-> "none"]

Init ==
    /\ cache = WeatherCache
    /\ now = 0
    /\ call = NoCall
    /\ hist = NoHist
    /\ lock = NoThread
    /\ pc = [t \in Threads |-> "idle"]
    /\ loc = [t \in Threads |-> NoLocals]
    /\ writer = NoWriter
    /\ inp = NoInput
    /\ out = NoOutput

(* time passes *)
Tick(d) ==
    /\ now + d <= MaxNow
    /\ now' = now + d
    /\ call' = NoCall
    /\ hist' = HistTick(hist)
    /\ UNCHANGED <<cache, thr, pure>>

(* a request handler calls fetch_weather_data(force_refresh) *)
CallFetchWeatherData(force_refresh, o) ==
    LET res == fetch_weather_data(cache, force_refresh, o, now)
    IN  /\ res.cache.fetch_errors <= MaxErrors
        /\ cache' = res.cache
        /\ call' = [op |-> "fetch_weather_data", force |-> force_refresh, outcome |-> o,
                    requested |-> res.requested, did_set |-> res.did_set,
                    errors |-> res.errors, ret |-> res.ret, exc |-> res.exc]
        /\ hist' = IF res.did_set THEN HistSet(hist, res.ret[1], TRUE)
                   ELSE IF res.errors > 0 THEN HistError(hist)
                   ELSE hist
        /\ UNCHANGED <<now, thr, pure>>

Next ==
    \/ \E d \in TickSteps : Tick(d)
    \/ \E f \in BOOLEAN, o \in Outcomes : CallFetchWeatherData(f, o)

Spec == Init /\ [][Next]_vars

----------------------------------------------------------------------------
(* The cache used on its own: any sequence of calls of its operations *)
CacheCall(op, ret) == [NoCall EXCEPT !.op = op, !.ret = ret]

CacheDataSets == { <<>>, SanitizeAll(<<RawGood>>), SanitizeAll(<<RawStrings, RawBad>>) }

CallGet ==
    /\ call' = CacheCall("get", get(cache, now))
    /\ UNCHANGED <<cache, now, hist, thr, pure>>

CallSet(d, success) ==
    /\ cache' = set(cache, d, success, now)
    /\ call' = CacheCall("set", None)
    /\ hist' = HistSet(hist, d, success)
    /\ UNCHANGED <<now, thr, pure>>

CallRecordError ==
    /\ cache.fetch_errors < MaxErrors
    /\ cache' = record_error(cache, now)
    /\ call' = CacheCall("record_error", None)
    /\ hist' = HistError(hist)
    /\ UNCHANGED <<now, thr, pure>>

CallShouldFetch ==
    /\ call' = CacheCall("should_fetch", should_fetch(cache, now))
    /\ UNCHANGED <<cache, now, hist, thr, pure>>

CallGetStaleData ==
    /\ call' = CacheCall("get_stale_data", get_stale_data(cache, now))
    /\ UNCHANGED <<cache, now, hist, thr, pure>>

NextCache ==
    \/ \E d \in TickSteps : Tick(d)
    \/ CallGet
    \/ \E d \in CacheDataSets, success \in BOOLEAN : CallSet(d, success)
    \/ CallRecordError
    \/ CallShouldFetch
    \/ CallGetStaleData

SpecCache == Init /\ [][NextCache]_vars

----------------------------------------------------------------------------
(* Request threads calling fetch_weather_data concurrently.  Every cache   *)
(* method runs `with self._lock:`; inside it each statement is one step,   *)
(* and `self._fetch_errors += 1` is a read followed by a write.            *)

(* outcomes of the upstream request seen by the threads *)
ThreadOutcomes ==
    { Outcome("timeout", "none", <<>>),
      Outcome("json", "list", <<RawGood>>),
      Outcome("json", "dict_data_list", <<RawStrings, RawBad>>) }

(* `with self._lock:` blocks until the lock is free *)
CanAcquireUnlocked(l, t) == TRUE
CanAcquire(l, t) == l = NoThread

(* leaving the `with self._lock:` block *)
ReleaseKeeps(l, t) == l
Release(l, t) == IF l = t THEN NoThread ELSE l

(* the first statement inside the lock of each cache method *)
AfterLock(p) ==
    CASE p = "get_lock" -> "get_32"
      [] p = "sf_lock"  -> "sf_64"
      [] p = "set_lock" -> "set_44"
      [] p = "re_lock"  -> "re_55r"
      [] p = "gs_lock"  -> "gs_77"

LockPcs == {"get_lock", "sf_lock", "set_lock", "re_lock", "gs_lock"}

(* the statements inside a `with self._lock:` block *)
LockedPcs == {"get_32", "get_36", "get_38", "sf_64", "set_44", "set_45", "set_47",
              "re_55r", "re_55w", "re_56", "gs_77"}

Goto(t, p) == pc' = [pc EXCEPT ![t] = p]

(* fetch_weather_data returns: the locals are gone *)
Return(t) == /\ Goto(t, "idle")
             /\ loc' = [loc EXCEPT ![t] = NoLocals]

(* threads that are about to count an error *)
PendingErrors == Cardinality({u \in Threads : pc[u] \in {"re_lock", "re_55r", "re_55w"}})

(* line 176: fetch_weather_data(force_refresh) is entered *)
T_Call(t, force_refresh) ==
    /\ pc[t] = "idle"
    /\ Goto(t, "get_lock")
    /\ loc' = [loc EXCEPT ![t] = [NoLocals EXCEPT !.force = force_refresh]]
    /\ UNCHANGED <<cache, now, call, hist, lock, writer, pure>>

(* lines 31, 42, 54, 63, 76: with self._lock; set() reads the clock first *)
T_Lock(t) ==
    /\ pc[t] \in LockPcs
    /\ CanAcquire(lock, t)
    /\ lock' = t
    /\ Goto(t, AfterLock(pc[t]))
    /\ loc' = [loc EXCEPT ![t].t = IF pc[t] = "set_lock" THEN now ELSE 0]
    /\ UNCHANGED <<cache, now, call, hist, writer, pure>>

(* get, line 32: if self._data is None: return None, False, None *)
T_Get32(t) ==
    /\ pc[t] = "get_32"
    /\ IF cache.data = None
       THEN /\ lock' = Release(lock, t)
            /\ Goto(t, "sf_lock")
       ELSE /\ Goto(t, "get_36")
            /\ UNCHANGED lock
    /\ UNCHANGED <<cache, now, call, hist, loc, writer, pure>>

(* get, lines 35-36: is_fresh *)
T_Get36(t) ==
    /\ pc[t] = "get_36"
    /\ loc' = [loc EXCEPT ![t].is_fresh = IsFresh(cache, now),
                          ![t].seen = writer.last_fetch]
    /\ Goto(t, "get_38")
    /\ UNCHANGED <<cache, now, call, hist, lock, writer, pure>>

(* get, line 38: return self._data, is_fresh, self._last_success;          *)
(* fetch_weather_data, lines 178-180: fresh data is returned               *)
T_Get38(t) ==
    /\ pc[t] = "get_38"
    /\ lock' = Release(lock, t)
    /\ IF loc[t].is_fresh /\ ~loc[t].force
       THEN Return(t)
       ELSE /\ Goto(t, "sf_lock")
            /\ loc' = [loc EXCEPT ![t].cached_data = cache.data,
                                  ![t].is_fresh = FALSE, ![t].seen = NoThread]
    /\ UNCHANGED <<cache, now, call, hist, writer, pure>>

(* should_fetch, lines 64-72; fetch_weather_data, lines 182-185 *)
T_ShouldFetch(t) ==
    /\ pc[t] = "sf_64"
    /\ lock' = Release(lock, t)
    /\ IF ~should_fetch(cache, now) /\ ~loc[t].force /\ Truthy(loc[t].cached_data)
       THEN Return(t)
       ELSE /\ Goto(t, "http")
            /\ loc' = [loc EXCEPT ![t].issued_at = now]
    /\ UNCHANGED <<cache, now, call, hist, writer, pure>>

(* _fetch_from_api, line 141: the upstream request completes;              *)
(* fetch_weather_data, lines 187-193                                       *)
T_Http(t, o) ==
    /\ pc[t] = "http"
    /\ LET r == fetch_from_api(o)
       IN  IF r.exc # "none"
           THEN Return(t)
           ELSE IF Truthy(r.value)
           THEN /\ Goto(t, "set_lock")
                /\ loc' = [loc EXCEPT ![t].fresh_data = r.value]
           ELSE /\ cache.fetch_errors + PendingErrors < ThreadMaxErrors
                /\ Goto(t, "re_lock")
                /\ UNCHANGED loc
    /\ UNCHANGED <<cache, now, call, hist, lock, writer, pure>>

(* set, line 44: self._data = data *)
T_Set44(t) ==
    /\ pc[t] = "set_44"
    /\ cache' = [cache EXCEPT !.data = loc[t].fresh_data]
    /\ writer' = [writer EXCEPT !.data = t, !.issued_at = loc[t].issued_at]
    /\ Goto(t, "set_45")
    /\ UNCHANGED <<now, call, hist, lock, loc, pure>>

(* set, line 45: self._last_fetch = now *)
T_Set45(t) ==
    /\ pc[t] = "set_45"
    /\ cache' = [cache EXCEPT !.last_fetch = Some(loc[t].t)]
    /\ writer' = [writer EXCEPT !.last_fetch = t]
    /\ Goto(t, "set_47")
    /\ UNCHANGED <<now, call, hist, lock, loc, pure>>

(* set, lines 47-50, with success = True; fetch_weather_data, line 191 *)
T_Set47(t) ==
    /\ pc[t] = "set_47"
    /\ IF Truthy(loc[t].fresh_data)
       THEN /\ cache' = [cache EXCEPT !.last_success = Some(loc[t].t),
                                      !.fetch_errors = 0, !.backoff_until = None]
            /\ writer' = [writer EXCEPT !.last_success = t]
            /\ hist' = HistSet(hist, loc[t].fresh_data[1], TRUE)
       ELSE UNCHANGED <<cache, writer, hist>>
    /\ lock' = Release(lock, t)
    /\ Return(t)
    /\ UNCHANGED <<now, call, pure>>

(* record_error, line 55: self._fetch_errors += 1, the read *)
T_Re55r(t) ==
    /\ pc[t] = "re_55r"
    /\ loc' = [loc EXCEPT ![t].tmp = cache.fetch_errors]
    /\ Goto(t, "re_55w")
    /\ UNCHANGED <<cache, now, call, hist, lock, writer, pure>>

(* record_error, line 55: self._fetch_errors += 1, the write *)
T_Re55w(t) ==
    /\ pc[t] = "re_55w"
    /\ cache' = [cache EXCEPT !.fetch_errors = loc[t].tmp + 1]
    /\ hist' = HistError(hist)
    /\ Goto(t, "re_56")
    /\ UNCHANGED <<now, call, lock, loc, writer, pure>>

(* record_error, lines 56-59 *)
T_Re56(t) ==
    /\ pc[t] = "re_56"
    /\ IF cache.fetch_errors >= max_errors_before_backoff
       THEN cache' = [cache EXCEPT
                        !.backoff_until = Some(now + BackoffSeconds(cache.fetch_errors))]
       ELSE UNCHANGED cache
    /\ lock' = Release(lock, t)
    /\ Goto(t, "gs_lock")
    /\ UNCHANGED <<now, call, hist, loc, writer, pure>>

(* get_stale_data, lines 77-84; fetch_weather_data, lines 195-201 *)
T_GetStale(t) ==
    /\ pc[t] = "gs_77"
    /\ lock' = Release(lock, t)
    /\ Return(t)
    /\ UNCHANGED <<cache, now, call, hist, writer, pure>>

(* time passes while the threads run *)
T_Tick(d) ==
    /\ now + d <= ThreadMaxNow
    /\ now' = now + d
    /\ hist' = HistTick(hist)
    /\ UNCHANGED <<cache, call, thr, pure>>

ThreadStep(t) ==
    \/ \E f \in BOOLEAN : T_Call(t, f)
    \/ T_Lock(t)
    \/ T_Get32(t)
    \/ T_Get36(t)
    \/ T_Get38(t)
    \/ T_ShouldFetch(t)
    \/ \E o \in ThreadOutcomes : T_Http(t, o)
    \/ T_Set44(t)
    \/ T_Set45(t)
    \/ T_Set47(t)
    \/ T_Re55r(t)
    \/ T_Re55w(t)
    \/ T_Re56(t)
    \/ T_GetStale(t)

NextThreads ==
    \/ \E d \in TickSteps : T_Tick(d)
    \/ \E t \in Threads : ThreadStep(t)

SpecThreads == Init /\ [][NextThreads]_vars

----------------------------------------------------------------------------
(* Properties of fetch_weather_data (specification Spec) *)

IsFetchCall == call.op = "fetch_weather_data"

(* the upstream outcomes that are failures: no response, a bad status, a   *)
(* body that is not JSON, or JSON that is neither a list nor an object     *)
(* with a data list                                                        *)
UpstreamFailed(o) == ~WellFormed(o)

(* what a caller gets from the cache alone: the cached data or an empty list *)
CachedOrEmpty(c) == IF c.data # None THEN c.data ELSE Some(<<>>)

(* the backoff window of cache c is active at time t *)
InBackoff(c, t) == c.backoff_until # None /\ t < c.backoff_until[1]

(* C1: for every cache state, force_refresh and upstream outcome,          *)
(* fetch_weather_data returns a list (possibly empty) and no exception     *)
(* propagates to the caller.                                               *)
C1_ReturnsListNeverRaises ==
    IsFetchCall => call.exc = "none" /\ call.ret # None

(* a payload with an element that is not an object made the sanitizer raise, *)
(* and the caller still got a list                                         *)
C1_Witness ==
    /\ IsFetchCall /\ call.requested
    /\ call.outcome.kind = "json" /\ SanitizeRaises(call.outcome.items)
    /\ call.exc = "none" /\ call.ret = Some(<<>>)

(* C2: inside an active backoff window a call with force_refresh = false   *)
(* performs no upstream request, whether the cache holds data or not, and  *)
(* returns the cached data if present and an empty result otherwise.       *)
C2_BackoffSuppressesRequest ==
    [][(call'.op = "fetch_weather_data" /\ ~call'.force /\ InBackoff(cache, now))
         => (~call'.requested /\ call'.ret = CachedOrEmpty(cache))]_vars

(* C3: once a call has committed a successful upstream response, every     *)
(* later call returns a non-empty list; an empty list is returned only     *)
(* while the cache has never held data.                                    *)
C3_NonEmptyOnceCommitted ==
    /\ (IsFetchCall /\ hist.committed) => Truthy(call.ret)
    /\ (IsFetchCall /\ call.ret = Some(<<>>)) => (~hist.committed /\ cache.data = None)

(* data committed long ago is served after a failed request, beyond the    *)
(* stale window and with the backoff counter running                       *)
C3_Witness ==
    /\ IsFetchCall /\ call.requested /\ UpstreamFailed(call.outcome)
    /\ hist.committed /\ cache.fetch_errors >= 3
    /\ now - cache.last_success[1] >= 300
    /\ Truthy(call.ret)

(* C5: whenever the upstream returns a well-formed payload of any length,  *)
(* including the empty list, fetch_weather_data commits the sanitized list *)
(* with set(success=true), returns it and does not increment the error     *)
(* counter.  (Stated for payloads whose elements are JSON objects.)        *)
C5_WellFormedIsCommitted ==
    (IsFetchCall /\ call.requested /\ WellFormed(call.outcome)
       /\ ~SanitizeRaises(call.outcome.items))
    => /\ call.did_set
       /\ call.errors = 0
       /\ call.ret = Some(SanitizeAll(call.outcome.items))
       /\ cache.data = call.ret

(* C6: when the upstream call fails, fetch_weather_data calls              *)
(* record_error() exactly once, leaves the cached reading set, the         *)
(* last-fetch time and the last-success time unchanged, and returns the    *)
(* cached data if any exists and an empty list otherwise.                  *)
C6_FailureFrame ==
    [][(call'.op = "fetch_weather_data" /\ call'.requested /\ UpstreamFailed(call'.outcome))
         => /\ call'.errors = 1
            /\ cache'.fetch_errors = cache.fetch_errors + 1
            /\ hist'.errs = hist.errs + 1
            /\ cache'.data = cache.data
            /\ cache'.last_fetch = cache.last_fetch
            /\ cache'.last_success = cache.last_success
            /\ call'.ret = CachedOrEmpty(cache)]_vars

(* a timeout after which the cached data was served *)
C6_Witness ==
    /\ IsFetchCall /\ call.requested /\ call.outcome.kind = "timeout"
    /\ call.errors = 1 /\ cache.data # None /\ call.ret = cache.data
    /\ cache.last_fetch # None /\ cache.last_fetch[1] < now

(* C7: when the cached data is fresh (a successful fetch exists and less   *)
(* than 60 s have elapsed since it) and force_refresh is false, the cached *)
(* reading set is returned without an upstream request and without         *)
(* changing any cache field.                                               *)
C7_FreshServedFromCache ==
    [][(call'.op = "fetch_weather_data" /\ ~call'.force
          /\ cache.last_success # None /\ now - cache.last_success[1] < 60)
         => (~call'.requested /\ call'.ret = cache.data /\ cache' = cache)]_vars

C7_Witness ==
    /\ IsFetchCall /\ ~call.force /\ ~call.requested
    /\ cache.last_success # None /\ now - cache.last_success[1] < 60
    /\ Truthy(call.ret) /\ call.ret = cache.data

(* C8: after a failed upstream call, cached data is served as a fallback   *)
(* only if its age is within the stale window (300 s); older cached data   *)
(* is not returned.                                                        *)
C8_StaleWindowLimitsFallback ==
    (IsFetchCall /\ call.requested /\ call.errors = 1
       /\ cache.last_success # None /\ now - cache.last_success[1] > 300)
    => call.ret # cache.data

----------------------------------------------------------------------------
(* Properties of the cache on its own (specification SpecCache) *)

(* C4: after three consecutive record_error() calls with no successful     *)
(* set() between them, should_fetch() returns false immediately            *)
(* afterwards; once the backoff-until instant of the last record_error()   *)
(* has passed, with no set() or record_error() in between, should_fetch()  *)
(* returns true again.                                                     *)
C4_BackoffAfterThreeErrors ==
    /\ (call.op = "should_fetch" /\ hist.errs >= 3 /\ hist.err_now)
          => call.ret = FALSE
    /\ (call.op = "should_fetch" /\ hist.errs >= 3 /\ ~hist.set_since_err
          /\ cache.backoff_until # None /\ now >= cache.backoff_until[1])
          => call.ret = TRUE

(* should_fetch() called once the backoff of three errors has elapsed, on  *)
(* a cache whose data was stored right before the errors                   *)
C4_Witness ==
    /\ call.op = "should_fetch" /\ hist.errs >= 3 /\ ~hist.set_since_err
    /\ cache.last_fetch # None
    /\ cache.backoff_until # None /\ now = cache.backoff_until[1]
    /\ call.ret = TRUE

----------------------------------------------------------------------------
(* Properties of concurrent callers (specification SpecThreads) *)

(* C9: the cache operations of concurrent threads take effect atomically,  *)
(* one at a time: k concurrent record_error() calls with no successful     *)
(* set() in between raise the error counter by exactly k, and no get()     *)
(* observes the reading set of one set() call together with the timestamps *)
(* of another.                                                             *)
C9_CacheOperationsAtomic ==
    /\ cache.fetch_errors = hist.errs
    /\ \A t \in Threads :
         pc[t] = "get_38" =>
            /\ loc[t].seen = writer.data
            /\ writer.last_success = writer.data

(* one thread is between the read and the write of the error counter while *)
(* the other waits for the lock to record its own error                    *)
C9_Witness ==
    /\ pc["t1"] = "re_55w" /\ loc["t1"].tmp = 1
    /\ pc["t2"] = "re_lock"
    /\ lock = "t1"

(* C10: a thread performing the upstream HTTP request does not hold the    *)
(* cache lock, the lock is only ever held inside a cache method, so the    *)
(* other threads' cache calls can complete while a fetch is in flight; the *)
(* result of the fetch is committed afterwards by one lock-protected       *)
(* set() or record_error().                                                *)
C10_NoLockDuringRequest ==
    /\ [](\A t \in Threads :
            /\ pc[t] = "http" => lock # t
            /\ lock = t => pc[t] \in LockedPcs)
    /\ [][\A t \in Threads :
            (pc[t] = "http" /\ pc'[t] # "http")
               => (cache' = cache /\ pc'[t] \in {"set_lock", "re_lock"})]_vars
    /\ [][cache' # cache
            => (lock \in Threads /\ pc[lock] \in LockedPcs /\ pc'[lock] # pc[lock])]_vars

(* a request is in flight in one thread while the other is inside set() *)
C10_Witness ==
    /\ pc["t1"] = "http"
    /\ pc["t2"] = "set_45" /\ lock = "t2"

----------------------------------------------------------------------------
(* MetricsService: threshold classification (services/metrics_service.py). *)
(* Water levels and rainfall are counted in tenths of their unit, so       *)
(* 699.9 is 6999.  A float is the ratio n/d of two integers, which keeps   *)
(* the mean of several readings exact.                                     *)
Ratio(n, d) == [t |-> "ratio", n |-> n, d |-> d]

(* level >= threshold *)
Ge(x, threshold) == x.n >= threshold * x.d

(* x <= y *)
Le(x, y) == x.n * y.d <= y.n * x.d

(* WeatherThresholds (config.py), in tenths *)
RAINFALL_HEAVY == 300
RAINFALL_MODERATE == 150
RAINFALL_LIGHT == 50
WATER_CRITICAL == 10000
WATER_WARNING == 9000
WATER_ALERT == 8000
WATER_ADVISORY == 7000

(* MetricsService._to_float: None for null and for what float() rejects *)
to_float(v) ==
    CASE v.t = "null"   -> None
      [] v.t = "badstr" -> None
      [] v.t = "ratio"  -> Some(v)
      [] OTHER          -> Some(Ratio(v.n, 1))

(* get_alert_level with the critical bound exclusive *)
get_alert_level_exclusive(water_level) ==
    LET level == to_float(water_level)
    IN  IF level = None THEN "normal"
        ELSE IF level[1].n > WATER_CRITICAL * level[1].d THEN "critical"
        ELSE IF Ge(level[1], WATER_WARNING) THEN "warning"
        ELSE IF Ge(level[1], WATER_ALERT) THEN "alert"
        ELSE IF Ge(level[1], WATER_ADVISORY) THEN "advisory"
        ELSE "normal"

(* MetricsService.get_alert_level *)
get_alert_level(water_level) ==
    LET level == to_float(water_level)
    IN  IF level = None THEN "normal"
        ELSE IF Ge(level[1], WATER_CRITICAL) THEN "critical"
        ELSE IF Ge(level[1], WATER_WARNING) THEN "warning"
        ELSE IF Ge(level[1], WATER_ALERT) THEN "alert"
        ELSE IF Ge(level[1], WATER_ADVISORY) THEN "advisory"
        ELSE "normal"

(* get_rainfall_level that reports a missing value as no rain *)
get_rainfall_level_none(rainfall) ==
    LET level == to_float(rainfall)
    IN  IF level = None THEN "none"
        ELSE IF Ge(level[1], RAINFALL_HEAVY) THEN "heavy"
        ELSE IF Ge(level[1], RAINFALL_MODERATE) THEN "moderate"
        ELSE IF Ge(level[1], RAINFALL_LIGHT) THEN "light"
        ELSE "none"

(* MetricsService.get_rainfall_level *)
get_rainfall_level(rainfall) ==
    LET level == to_float(rainfall)
    IN  IF level = None THEN "no_data"
        ELSE IF Ge(level[1], RAINFALL_HEAVY) THEN "heavy"
        ELSE IF Ge(level[1], RAINFALL_MODERATE) THEN "moderate"
        ELSE IF Ge(level[1], RAINFALL_LIGHT) THEN "light"
        ELSE "none"

(* the values the classifiers are called with *)
WaterNumbers == {6500, 6999, 7000, 7500, 7999, 8000, 8999, 9000, 9999, 10000, 10500}
RainNumbers == {0, 49, 50, 149, 150, 299, 300, 350}

WaterValues ==
    {Num(n) : n \in WaterNumbers} \cup {NumStr(n) : n \in WaterNumbers}
    \cup {Null, BadStr, Ratio(20999, 3), Ratio(30000, 3)}

RainValues ==
    {Num(n) : n \in RainNumbers} \cup {NumStr(n) : n \in RainNumbers}
    \cup {Null, BadStr, Ratio(149, 3), Ratio(150, 3)}

(* the call before this one, when it was a call of the same function *)
Previous(fn) ==
    IF out.fn = fn THEN Some([v |-> inp.v, level |-> out.level]) ELSE None

(* a caller classifies a water level *)
CallGetAlertLevel(v) ==
    /\ inp' = [fn |-> "get_alert_level", v |-> v]
    /\ out' = [fn |-> "get_alert_level", level |-> get_alert_level(v),
               prev |-> Previous("get_alert_level")]
    /\ UNCHANGED <<cache, now, call, hist, thr>>

(* a caller classifies a rainfall value *)
CallGetRainfallLevel(v) ==
    /\ inp' = [fn |-> "get_rainfall_level", v |-> v]
    /\ out' = [fn |-> "get_rainfall_level", level |-> get_rainfall_level(v),
               prev |-> Previous("get_rainfall_level")]
    /\ UNCHANGED <<cache, now, call, hist, thr>>

NextClassify ==
    \/ \E v \in WaterValues : CallGetAlertLevel(v)
    \/ \E v \in RainValues : CallGetRainfallLevel(v)

SpecClassify == Init /\ [][NextClassify]_vars

----------------------------------------------------------------------------
(* Properties of the classifiers (specification SpecClassify) *)

(* severity order of the alert levels *)
Severity(l) ==
    CASE l = "normal" -> 0 [] l = "advisory" -> 1 [] l = "alert" -> 2
      [] l = "warning" -> 3 [] l = "critical" -> 4

(* the lower bounds the claim gives, in tenths *)
AlertLowerBound(l) ==
    CASE l = "advisory" -> 7000 [] l = "alert" -> 8000
      [] l = "warning" -> 9000 [] l = "critical" -> 10000

(* the most severe level whose lower bound is <= x, normal when there is none *)
MostSevereReached(x) ==
    LET reached == {l \in {"advisory", "alert", "warning", "critical"} : Ge(x, AlertLowerBound(l))}
    IN  IF reached = {} THEN "normal"
        ELSE CHOOSE l \in reached : \A m \in reached : Severity(m) <= Severity(l)

AlertBoundaryTable ==
    { <<6999, "normal">>, <<7000, "advisory">>, <<7999, "advisory">>, <<8000, "alert">>,
      <<8999, "alert">>, <<9000, "warning">>, <<9999, "warning">>, <<10000, "critical">> }

(* C11: get_alert_level(v) is the most severe level whose lower bound is   *)
(* <= v (critical >= 1000, warning >= 900, alert >= 800, advisory >= 700,  *)
(* otherwise normal), with the exact boundaries 699.9 normal, 700.0        *)
(* advisory, ..., 1000.0 critical; it is monotonic non-decreasing in       *)
(* severity as v increases; a null or unparseable value gives normal.      *)
C11_AlertLevelClassification ==
    out.fn = "get_alert_level" =>
        /\ to_float(inp.v) # None => out.level = MostSevereReached(to_float(inp.v)[1])
        /\ \A b \in AlertBoundaryTable :
              inp.v \in {Num(b[1]), NumStr(b[1])} => out.level = b[2]
        /\ inp.v \in {Null, BadStr} => out.level = "normal"
        /\ (out.prev # None /\ to_float(inp.v) # None /\ to_float(out.prev[1].v) # None
              /\ Le(to_float(out.prev[1].v)[1], to_float(inp.v)[1]))
            => Severity(out.prev[1].level) <= Severity(out.level)

(* 999.9 was classified warning and then 1000.0, given as a string, critical *)
C11_Witness ==
    /\ out.fn = "get_alert_level" /\ inp.v = NumStr(10000) /\ out.level = "critical"
    /\ out.prev = Some([v |-> Num(9999), level |-> "warning"])

RainBoundaryTable ==
    { <<49, "none">>, <<50, "light">>, <<149, "light">>, <<150, "moderate">>,
      <<299, "moderate">>, <<300, "heavy">> }

(* C12: get_rainfall_level(v) is heavy when v >= 30.0, moderate when       *)
(* 15.0 <= v < 30.0, light when 5.0 <= v < 15.0 and none when v < 5.0      *)
(* (4.9 none, 5.0 light, 14.9 light, 15.0 moderate, 29.9 moderate, 30.0    *)
(* heavy); a null or unparseable value gives no_data, never none.          *)
C12_RainfallLevelClassification ==
    out.fn = "get_rainfall_level" =>
        LET x == to_float(inp.v)
        IN  /\ x # None =>
                 /\ out.level = "heavy" <=> Ge(x[1], 300)
                 /\ out.level = "moderate" <=> (Ge(x[1], 150) /\ ~Ge(x[1], 300))
                 /\ out.level = "light" <=> (Ge(x[1], 50) /\ ~Ge(x[1], 150))
                 /\ out.level = "none" <=> ~Ge(x[1], 50)
            /\ \A b \in RainBoundaryTable :
                 inp.v \in {Num(b[1]), NumStr(b[1])} => out.level = b[2]
            /\ inp.v \in {Null, BadStr} => out.level = "no_data"

(* an unparseable string was classified no_data right after 4.9 was none *)
C12_Witness ==
    /\ out.fn = "get_rainfall_level" /\ inp.v = BadStr /\ out.level = "no_data"
    /\ out.prev = Some([v |-> Num(49), level |-> "none"])

----------------------------------------------------------------------------
(* MetricsService.calculate_dashboard_metrics (services/metrics_service.py) *)

STATION_OFFLINE_THRESHOLD_MINUTES == 60
TOTAL_STATIONS == 5

(* SiteConfig.SITES (config.py): station id and name *)
Sites ==
    << [id |-> "St1", name |-> "Binudegahan Station"],
       [id |-> "St2", name |-> "Mangit Station"],
       [id |-> "St3", name |-> "Laganac Station"],
       [id |-> "St4", name |-> "MDRRMO Station"],
       [id |-> "St5", name |-> "Luluasan Station"] >>

(* A timestamp field as the upstream sends it: its form and the instant    *)
(* (in seconds) it denotes.  Forms: "missing" (no key, null or ""),        *)
(* "space" 2024-01-05 13:30:00, "frac" 2024-01-05 13:30:00.250000,         *)
(* "iso" 2024-01-05T13:30:00, "isoZ" with a trailing Z, "minus" with a     *)
(* -05:00 offset, "datetime" a datetime object, "number" a JSON number,    *)
(* "garbage" any other string.                                             *)
Stamp(form, at) == [form |-> form, at |-> at]
NoStamp == Stamp("missing", 0)

(* a or b on timestamp fields: the first that is not falsy *)
OrStamp(a, b) == IF a.form = "missing" THEN b ELSE a

(* MetricsService._parse_timestamp *)
metrics_parse_timestamp(data) ==
    LET timestamp_str == OrStamp(data.DateTime, OrStamp(data.DateTimeStamp, data.Timestamp))
    IN  CASE timestamp_str.form = "missing"  -> None
          [] timestamp_str.form = "datetime" -> Some(timestamp_str.at)
          [] timestamp_str.form \in {"space", "frac", "iso", "isoZ"} -> Some(timestamp_str.at)
          [] timestamp_str.form = "minus"    -> Some(timestamp_str.at)
          [] OTHER                           -> None

(* _is_station_online with a strict comparison *)
is_station_online_strict(data, t) ==
    IF data = None THEN FALSE
    ELSE LET timestamp == metrics_parse_timestamp(data[1])
         IN  IF timestamp = None THEN FALSE
             ELSE (t - timestamp[1]) < STATION_OFFLINE_THRESHOLD_MINUTES * 60

(* MetricsService._is_station_online, at time t *)
is_station_online(data, t) ==
    IF data = None THEN FALSE
    ELSE LET timestamp == metrics_parse_timestamp(data[1])
         IN  IF timestamp = None THEN FALSE
             ELSE (t - timestamp[1]) <= STATION_OFFLINE_THRESHOLD_MINUTES * 60

RECURSIVE SiteName(_, _, _)
SiteName(sites, station_id, i) ==
    IF i > Len(sites) THEN station_id
    ELSE IF sites[i].id = station_id THEN sites[i].name
    ELSE SiteName(sites, station_id, i + 1)

(* MetricsService._get_station_name *)
get_station_name(sites, station_id) == SiteName(sites, station_id, 1)

(* x + y *)
AddRatio(x, y) == Ratio(x.n * y.d + y.n * x.d, x.d * y.d)

(* alert_counts[alert_level] = 1 *)
IncrementCountAssign(counts, level) == [counts EXCEPT ![level] = 1]

(* alert_counts[alert_level] += 1 *)
IncrementCount(counts, level) == [counts EXCEPT ![level] = @ + 1]

(* needs attention, advisory included *)
NeedsAttentionWithAdvisory(level) == level \in {"critical", "warning", "alert", "advisory"}

(* alert_level in ['critical', 'warning', 'alert'] *)
NeedsAttention(level) == level \in {"critical", "warning", "alert"}

(* the accumulators before the loop, lines 143-149 *)
DashStart ==
    [alert_counts |-> [critical |-> 0, warning |-> 0, alert |-> 0, advisory |-> 0, normal |-> 0],
     attention_stations |-> <<>>, offline_stations |-> <<>>, station_alerts |-> <<>>,
     online_count |-> 0, total_rainfall |-> Ratio(0, 1), rainfall_readings |-> 0]

(* one iteration of the loop over station_data.items(), lines 151-185 *)
DashStep(acc, entry, sites, t) ==
    LET station_name == get_station_name(sites, entry.id)
        data == entry.data
    IN  IF data = None
        THEN [acc EXCEPT !.offline_stations = Append(@, station_name)]
        ELSE
          LET is_online == is_station_online(data, t)
              water_level == to_float(data[1].WaterLevel)
              alert_level == get_alert_level(IF water_level = None THEN Null ELSE water_level[1])
              rainfall == to_float(data[1].HourlyRain)
              a1 == IF is_online
                    THEN [acc EXCEPT !.online_count = @ + 1]
                    ELSE [acc EXCEPT !.offline_stations = Append(@, station_name)]
              a2 == [a1 EXCEPT !.alert_counts = IncrementCount(@, alert_level),
                               !.station_alerts = Append(@, [station_id |-> entry.id,
                                                             alert_level |-> alert_level,
                                                             is_online |-> is_online])]
              a3 == IF NeedsAttention(alert_level)
                    THEN [a2 EXCEPT !.attention_stations = Append(@, station_name)]
                    ELSE a2
          IN  IF rainfall # None
              THEN [a3 EXCEPT !.total_rainfall = AddRatio(@, rainfall[1]),
                              !.rainfall_readings = @ + 1]
              ELSE a3

RECURSIVE DashLoop(_, _, _, _, _)
DashLoop(acc, station_data, sites, i, t) ==
    IF i > Len(station_data) THEN acc
    ELSE DashLoop(DashStep(acc, station_data[i], sites, t), station_data, sites, i + 1, t)

(* the scan from advisory up: the least severe level with a count *)
HighestAlertFromBelow(alert_counts) ==
    IF alert_counts.advisory > 0 THEN [level |-> "advisory", count |-> alert_counts.advisory]
    ELSE IF alert_counts.alert > 0 THEN [level |-> "alert", count |-> alert_counts.alert]
    ELSE IF alert_counts.warning > 0 THEN [level |-> "warning", count |-> alert_counts.warning]
    ELSE IF alert_counts.critical > 0 THEN [level |-> "critical", count |-> alert_counts.critical]
    ELSE [level |-> "normal", count |-> 0]

(* lines 187-194: the first of critical, warning, alert, advisory with a count *)
HighestAlert(alert_counts) ==
    IF alert_counts.critical > 0 THEN [level |-> "critical", count |-> alert_counts.critical]
    ELSE IF alert_counts.warning > 0 THEN [level |-> "warning", count |-> alert_counts.warning]
    ELSE IF alert_counts.alert > 0 THEN [level |-> "alert", count |-> alert_counts.alert]
    ELSE IF alert_counts.advisory > 0 THEN [level |-> "advisory", count |-> alert_counts.advisory]
    ELSE [level |-> "normal", count |-> 0]

(* total / count: the quotient, or the ZeroDivisionError Python raises *)
Divide(total, count) ==
    IF count = 0
    THEN [exc |-> "ZeroDivisionError", value |-> Ratio(0, 1)]
    ELSE [exc |-> "none", value |-> Ratio(total.n, total.d * count)]

(* the average without the guard *)
AverageRainfallUnguarded(total_rainfall, rainfall_readings) ==
    Divide(total_rainfall, rainfall_readings)

(* line 196: total_rainfall / rainfall_readings if rainfall_readings > 0 else 0 *)
AverageRainfall(total_rainfall, rainfall_readings) ==
    IF rainfall_readings > 0
    THEN Divide(total_rainfall, rainfall_readings)
    ELSE [exc |-> "none", value |-> Ratio(0, 1)]

(* RainfallForecastConfig.get_config(level)['level'] (config.py) *)
RainfallForecastLevel(rainfall_level) ==
    CASE rainfall_level = "heavy"    -> "Heavy Rain"
      [] rainfall_level = "moderate" -> "Moderate Rain"
      [] rainfall_level = "light"    -> "Light Rain"
      [] rainfall_level = "none"     -> "Clear"
      [] OTHER                       -> "No Data"

(* MetricsService._get_rainfall_forecast *)
get_rainfall_forecast(avg_rainfall) == RainfallForecastLevel(get_rainfall_level(avg_rainfall))

(* MetricsService(sites).calculate_dashboard_metrics(station_data), at time t *)
calculate_dashboard_metrics(sites, station_data, t) ==
    LET acc == DashLoop(DashStart, station_data, sites, 1, t)
        highest == HighestAlert(acc.alert_counts)
        avg_rainfall == AverageRainfall(acc.total_rainfall, acc.rainfall_readings)
    IN  [fn |-> "calculate_dashboard_metrics",
         exc |-> avg_rainfall.exc,
         highest_alert_level |-> highest.level,
         highest_alert_count |-> highest.count,
         critical_count |-> acc.alert_counts.critical,
         warning_count |-> acc.alert_counts.warning,
         alert_count |-> acc.alert_counts.alert,
         advisory_count |-> acc.alert_counts.advisory,
         attention_stations |-> acc.attention_stations,
         online_sensors |-> acc.online_count,
         total_sensors |-> TOTAL_STATIONS,
         offline_stations |-> acc.offline_stations,
         rainfall_forecast |-> get_rainfall_forecast(avg_rainfall.value),
         avg_rainfall |-> avg_rainfall.value,
         station_alerts |-> acc.station_alerts]

(* a station's latest reading, as far as the dashboard reads it *)
DashReading(w, r, stamps) ==
    [WaterLevel |-> w, HourlyRain |-> r,
     DateTime |-> stamps[1], DateTimeStamp |-> stamps[2], Timestamp |-> stamps[3]]

(* station_data.items(): one entry per station, data None for a station     *)
(* whose reading is None or {}                                              *)
Entry(id, data) == [id |-> id, data |-> data]

DashWater == {Num(6500), NumStr(7500), Num(8500), NumStr(9500), Num(10500), Null, BadStr}
DashRain == {NumStr(350), Num(149), Num(0), Null}
DashStamps ==
    { <<Stamp("space", 0), NoStamp, NoStamp>>,
      <<Stamp("iso", 0 - 3600), Stamp("space", 0), NoStamp>>,
      <<NoStamp, Stamp("frac", 0 - 3601), NoStamp>>,
      <<NoStamp, NoStamp, Stamp("isoZ", 60)>>,
      <<Stamp("garbage", 0), Stamp("space", 0), NoStamp>>,
      <<NoStamp, NoStamp, NoStamp>> }
DashReadings == {DashReading(w, r, s) : w \in DashWater, r \in DashRain, s \in DashStamps}

EntryChoices(id) ==
    {<<>>} \cup {<<Entry(id, d)>> : d \in {None} \cup {Some(r) : r \in DashReadings}}

(* the station maps of tests/test_metrics_service.py *)
Fresh == <<Stamp("space", 0), NoStamp, NoStamp>>
TestMultipleStations ==
    << Entry("St1", Some(DashReading(NumStr(10500), NumStr(0), Fresh))),
       Entry("St2", Some(DashReading(NumStr(9500), NumStr(0), Fresh))),
       Entry("St3", Some(DashReading(NumStr(8500), NumStr(0), Fresh))),
       Entry("St4", Some(DashReading(NumStr(7500), NumStr(0), Fresh))),
       Entry("St5", Some(DashReading(NumStr(6500), NumStr(0), Fresh))) >>
TestRainfallTriggers ==
    << Entry("St1", Some(DashReading(NumStr(6500), NumStr(350), Fresh))) >>
TestEmergencyScenario ==
    << Entry("St1", Some(DashReading(NumStr(10200), NumStr(350), Fresh))),
       Entry("St2", Some(DashReading(NumStr(8800), NumStr(320), Fresh))),
       Entry("St3", Some(DashReading(NumStr(7200), NumStr(300), Fresh))) >>

(* station maps: every map over a configured and an unconfigured station,   *)
(* and the maps of the tests                                                *)
DashMaps ==
    {a \o b : a \in EntryChoices("St2"), b \in EntryChoices("St9")}
        \cup {TestMultipleStations, TestRainfallTriggers, TestEmergencyScenario}

DashInputs ==
    {[fn |-> "calculate_dashboard_metrics", sites |-> s, station_data |-> m] :
        s \in {<<>>, Sites}, m \in DashMaps}

InitDash ==
    /\ cache = WeatherCache
    /\ now = 0
    /\ call = NoCall
    /\ hist = NoHist
    /\ lock = NoThread
    /\ pc = [t \in Threads |-> "idle"]
    /\ loc = [t \in Threads |-> NoLocals]
    /\ writer = NoWriter
    /\ inp \in DashInputs
    /\ out = NoOutput

(* the dashboard route computes the metrics of the station map *)
CallCalculateDashboardMetrics ==
    /\ inp.fn = "calculate_dashboard_metrics"
    /\ out = NoOutput
    /\ out' = calculate_dashboard_metrics(inp.sites, inp.station_data, now)
    /\ UNCHANGED <<cache, now, call, hist, thr, inp>>

NextDash == CallCalculateDashboardMetrics

SpecDash == InitDash /\ [][NextDash]_vars

----------------------------------------------------------------------------
(* Claims about the dashboard metrics *)

IsDashResult == out.fn = "calculate_dashboard_metrics"

(* the positions of the station map *)
Stations == 1..Len(inp.station_data)
HasReading(i) == inp.station_data[i].data # None
ReadingOf(i) == inp.station_data[i].data[1]
NameOf(i) == get_station_name(inp.sites, inp.station_data[i].id)

(* the stations with a reading whose water level classifies as level l *)
StationsAt(l) == {i \in Stations : HasReading(i) /\ get_alert_level(ReadingOf(i).WaterLevel) = l}

(* the entries of a sequence, as a set *)
Range(seq) == {seq[k] : k \in 1..Len(seq)}

(* C13: calculate_dashboard_metrics counts each station that has a reading  *)
(* in exactly one alert level, the one get_alert_level gives for its water  *)
(* level, online or not, and a station with no reading in no level; water   *)
(* levels 1050, 950, 850, 750, 650 with fresh timestamps give one station   *)
(* per level from critical to advisory and online_sensors = 5.              *)
C13_StationsCountedPerLevel ==
    IsDashResult =>
        /\ out.critical_count = Cardinality(StationsAt("critical"))
        /\ out.warning_count = Cardinality(StationsAt("warning"))
        /\ out.alert_count = Cardinality(StationsAt("alert"))
        /\ out.advisory_count = Cardinality(StationsAt("advisory"))
        /\ Len(out.station_alerts) = Cardinality({i \in Stations : HasReading(i)})
        /\ \A k \in 1..Len(out.station_alerts) :
              \E i \in Stations :
                  /\ HasReading(i)
                  /\ inp.station_data[i].id = out.station_alerts[k].station_id
                  /\ out.station_alerts[k].alert_level = get_alert_level(ReadingOf(i).WaterLevel)
        /\ inp.station_data = TestMultipleStations =>
              /\ out.critical_count = 1 /\ out.warning_count = 1
              /\ out.alert_count = 1 /\ out.advisory_count = 1
              /\ out.online_sensors = 5

(* two critical stations, one of them offline, are both counted *)
C13_Witness ==
    /\ IsDashResult
    /\ Len(inp.station_data) = 2
    /\ out.critical_count = 2
    /\ out.online_sensors = 1

(* C14: highest_alert_level is the most severe of critical, warning, alert, *)
(* advisory with a non-zero count and highest_alert_count is that level's   *)
(* count; with no such level it is normal; for the empty map every count    *)
(* and online_sensors are 0 and no division error occurs.                   *)
C14_HighestAlertLevel ==
    IsDashResult =>
        LET counts == [critical |-> out.critical_count, warning |-> out.warning_count,
                       alert |-> out.alert_count, advisory |-> out.advisory_count]
            Levels == DOMAIN counts
        IN  /\ \A l \in Levels :
                  (counts[l] > 0 /\ \A m \in Levels : Severity(m) > Severity(l) => counts[m] = 0)
                      => (out.highest_alert_level = l /\ out.highest_alert_count = counts[l])
            /\ (\A l \in Levels : counts[l] = 0) => out.highest_alert_level = "normal"
            /\ inp.station_data = <<>> =>
                  /\ \A l \in Levels : counts[l] = 0
                  /\ out.online_sensors = 0
                  /\ out.highest_alert_level = "normal"
                  /\ out.exc = "none"

(* a warning station outranks an advisory station *)
C14_Witness ==
    /\ IsDashResult
    /\ out.warning_count = 1
    /\ out.advisory_count = 1
    /\ out.highest_alert_level = "warning"

(* C15: attention_stations lists exactly the stations whose alert level is  *)
(* alert, warning or critical, never advisory or normal, each once, so its  *)
(* length is critical_count + warning_count + alert_count.                  *)
C15_AttentionStations ==
    IsDashResult =>
        LET attention == StationsAt("alert") \cup StationsAt("warning") \cup StationsAt("critical")
        IN  /\ Range(out.attention_stations) = {NameOf(i) : i \in attention}
            /\ Len(out.attention_stations) = Cardinality(attention)
            /\ Len(out.attention_stations)
                  = out.critical_count + out.warning_count + out.alert_count

(* an alert station is listed, an advisory station is not *)
C15_Witness ==
    /\ IsDashResult
    /\ out.alert_count = 1
    /\ out.advisory_count = 1
    /\ Len(out.attention_stations) = 1

(* a station's reading has a parseable timestamp at most 60 minutes old *)
FreshAt(i) ==
    /\ HasReading(i)
    /\ metrics_parse_timestamp(ReadingOf(i)) # None
    /\ now - metrics_parse_timestamp(ReadingOf(i))[1] <= 60 * 60

(* C16: a station is online iff its reading has a parseable timestamp whose *)
(* age against now is at most 60 minutes; every station of the map is       *)
(* either counted in online_sensors or listed in offline_stations, never    *)
(* both, so online_sensors + len(offline_stations) is the number of         *)
(* stations in the map.                                                     *)
C16_OnlineOrOffline ==
    IsDashResult =>
        /\ out.online_sensors = Cardinality({i \in Stations : FreshAt(i)})
        /\ Range(out.offline_stations) = {NameOf(i) : i \in {j \in Stations : ~FreshAt(j)}}
        /\ Len(out.offline_stations) = Cardinality({i \in Stations : ~FreshAt(i)})
        /\ out.online_sensors + Len(out.offline_stations) = Len(inp.station_data)
        /\ \A k \in 1..Len(out.station_alerts) :
              \A i \in Stations :
                  inp.station_data[i].id = out.station_alerts[k].station_id
                      => (out.station_alerts[k].is_online <=> FreshAt(i))

(* a reading exactly 60 minutes old is online, one a second older is not *)
C16_Witness ==
    /\ IsDashResult
    /\ Len(inp.station_data) = 2
    /\ HasReading(1) /\ HasReading(2)
    /\ ReadingOf(1).DateTime = Stamp("iso", 0 - 3600)
    /\ ReadingOf(2).DateTimeStamp = Stamp("frac", 0 - 3601)
    /\ out.online_sensors = 1
    /\ Len(out.offline_stations) = 1

(* the stations whose rainfall parses to a number *)
RainStations == {i \in Stations : HasReading(i) /\ to_float(ReadingOf(i).HourlyRain) # None}

RECURSIVE RainSum(_)
RainSum(S) ==
    IF S = {} THEN Ratio(0, 1)
    ELSE LET i == CHOOSE j \in S : TRUE
         IN  AddRatio(to_float(ReadingOf(i).HourlyRain)[1], RainSum(S \ {i}))

(* the mean HourlyRain over RainStations, 0 when there is none *)
MeanRain ==
    IF RainStations = {} THEN Ratio(0, 1)
    ELSE LET total == RainSum(RainStations)
         IN  Ratio(total.n, total.d * Cardinality(RainStations))

(* C17: the dashboard rainfall forecast is get_rainfall_level applied to    *)
(* the mean HourlyRain over the stations whose rainfall parses to a number, *)
(* the mean being 0 when there is none (no division by zero); one station   *)
(* at 35.0, and three stations at 35.0, 32.0 and 30.0, give Heavy Rain.     *)
C17_RainfallForecast ==
    IsDashResult =>
        /\ out.exc = "none"
        /\ out.rainfall_forecast = RainfallForecastLevel(get_rainfall_level(MeanRain))
        /\ RainStations = {} => out.rainfall_forecast = "Clear"
        /\ inp.station_data \in {TestRainfallTriggers, TestEmergencyScenario}
              => out.rainfall_forecast = "Heavy Rain"

(* two stations at 35.0 and 14.9 have the mean 24.95: moderate rain *)
C17_Witness ==
    /\ IsDashResult
    /\ Cardinality(RainStations) = 2
    /\ out.rainfall_forecast = "Moderate Rain"

----------------------------------------------------------------------------
(* PrecipitationService and WaterLevelService: the 24-hour series per       *)
(* station (services/precipitation_service.py, water_level_service.py).    *)
(* The two services run the same code on different fields; `service`       *)
(* selects the field, the validity test and the classifier.  Instants are  *)
(* seconds, metric values tenths of a unit.                                 *)

START_HOUR == 0
END_HOUR == 23
DATA_INTERVAL_HOURS == 1
LABEL_INTERVAL_HOURS == 2
MIN_VALID_WATER_LEVEL == 0
MAX_VALID_WATER_LEVEL == 150

SecondsPerHour == 60 * 60
SecondsPerDay == 24 * SecondsPerHour

(* dt.replace(hour=h, minute=0, second=0, microsecond=0) *)
ReplaceHour(dt, h) == (dt - (dt % SecondsPerDay)) + h * SecondsPerHour

(* dt.hour *)
HourOf(dt) == (dt % SecondsPerDay) \div SecondsPerHour

(* A reading of the list handed to the services: a JSON object, or a JSON  *)
(* string, which _sanitize_reading passes through unchanged                 *)
IntervalReading(station_id, date_time, date_time_stamp, rain, water) ==
    [dict |-> TRUE, StationID |-> station_id, DateTime |-> date_time,
     DateTimeStamp |-> date_time_stamp, HourlyRain |-> rain, WaterLevel |-> water]
IntervalNotADict ==
    [dict |-> FALSE, StationID |-> "", DateTime |-> NoStamp,
     DateTimeStamp |-> NoStamp, HourlyRain |-> Null, WaterLevel |-> Null]

Returned(v) == [exc |-> "none", value |-> v]
Raised(e) == [exc |-> e, value |-> None]

(* _parse_timestamp of both services: strptime with the two formats, then   *)
(* fromisoformat; only ValueError is caught, so a value that is not a       *)
(* string raises TypeError                                                  *)
interval_parse_timestamp(timestamp_str) ==
    CASE timestamp_str.form = "missing" -> Returned(None)
      [] timestamp_str.form \in {"number", "datetime"} -> Raised("TypeError")
      [] timestamp_str.form \in {"space", "frac"} -> Returned(Some(timestamp_str.at))
      [] timestamp_str.form \in {"iso", "isoZ", "minus"} -> Returned(Some(timestamp_str.at))
      [] OTHER                          -> Returned(None)

(* reading.get('DateTime') or reading.get('DateTimeStamp', '') *)
TimestampOf(reading) == OrStamp(reading.DateTime, reading.DateTimeStamp)

(* the loop that looks for the latest timestamp: latest is None or the      *)
(* latest instant so far; a reading that is not a dict raises               *)
RECURSIVE LatestTimestamp(_, _, _)
LatestTimestamp(weather_data, i, latest) ==
    IF i > Len(weather_data) THEN Returned(latest)
    ELSE IF ~weather_data[i].dict THEN Raised("AttributeError")
    ELSE LET parsed == interval_parse_timestamp(TimestampOf(weather_data[i]))
         IN  IF parsed.exc # "none" THEN parsed
             ELSE IF parsed.value # None /\ (latest = None \/ parsed.value[1] > latest[1])
                  THEN LatestTimestamp(weather_data, i + 1, parsed.value)
                  ELSE LatestTimestamp(weather_data, i + 1, latest)

(* the display date: target_date, else the latest timestamp, else now *)
DisplayDate(weather_data, target_date, t) ==
    IF target_date # None THEN Returned(target_date[1])
    ELSE IF weather_data = <<>> THEN Returned(t)
    ELSE LET latest == LatestTimestamp(weather_data, 1, None)
         IN  IF latest.exc # "none" THEN latest
             ELSE IF latest.value # None THEN Returned(latest.value[1])
             ELSE Returned(t)

(* _create_hourly_intervals *)
RECURSIVE create_hourly_intervals(_, _)
create_hourly_intervals(current, end_time) ==
    IF current <= end_time
    THEN <<current>> \o create_hourly_intervals(current + DATA_INTERVAL_HOURS * SecondsPerHour, end_time)
    ELSE <<>>

(* start_time <= parsed_time <= end_time + timedelta(hours=1) *)
InWindow(start_time, end_time, parsed_time) ==
    start_time <= parsed_time /\ parsed_time <= end_time + SecondsPerHour

(* the slot test with a closed upper end *)
SlotMatchesClosed(interval_time, parsed_time) ==
    interval_time <= parsed_time /\ parsed_time <= interval_time + SecondsPerHour

(* interval_time <= parsed_time < next_interval *)
SlotMatches(interval_time, parsed_time) ==
    interval_time <= parsed_time /\ parsed_time < interval_time + SecondsPerHour

(* the field the service reads *)
MetricOf(service, reading) ==
    IF service = "precipitation" THEN reading.HourlyRain ELSE reading.WaterLevel

(* the conversion without the range test *)
ValidMetricUnchecked(service, value) == TRUE

(* the range test without the upper limit *)
ValidMetricLowerOnly(service, value) == ~(value < 0)

(* the range test on the converted value (tenths) *)
ValidMetric(service, value) ==
    IF service = "precipitation" THEN ~(value < 0)
    ELSE MIN_VALID_WATER_LEVEL <= value /\ value <= MAX_VALID_WATER_LEVEL

(* the first interval that matches, or 0 *)
RECURSIVE FindInterval(_, _, _)
FindInterval(intervals, parsed_time, k) ==
    IF k > Len(intervals) THEN 0
    ELSE IF SlotMatches(intervals[k], parsed_time) THEN k
    ELSE FindInterval(intervals, parsed_time, k + 1)

(* one iteration of the grouping loop: the reading's contribution           *)
(* [station_id, interval, value], None when the reading is skipped, or the  *)
(* exception that leaves the loop                                           *)
GroupReading(service, reading, intervals, start_time, end_time) ==
    IF ~reading.dict THEN Returned(None)
    ELSE LET parsed == interval_parse_timestamp(TimestampOf(reading))
             metric == MetricOf(service, reading)
         IN  IF parsed.exc # "none" THEN parsed
             ELSE IF parsed.value = None THEN Returned(None)
             ELSE IF ~InWindow(start_time, end_time, parsed.value[1]) THEN Returned(None)
             ELSE IF reading.StationID = "" \/ metric.t = "null" THEN Returned(None)
             ELSE IF FloatRaises(metric) THEN Returned(None)
             ELSE IF ~ValidMetric(service, Float(metric).n) THEN Returned(None)
             ELSE LET k == FindInterval(intervals, parsed.value[1], 1)
                  IN  IF k = 0 THEN Returned(None)
                      ELSE Returned(Some([station_id |-> reading.StationID,
                                          interval |-> intervals[k],
                                          value |-> Float(metric).n]))

(* _group_readings_by_station_and_interval: the contributions in list order *)
RECURSIVE group_readings_by_station_and_interval(_, _, _, _, _, _, _)
group_readings_by_station_and_interval(service, weather_data, intervals, start_time, end_time, i, grouped) ==
    IF i > Len(weather_data) THEN Returned(grouped)
    ELSE LET g == GroupReading(service, weather_data[i], intervals, start_time, end_time)
         IN  IF g.exc # "none" THEN g
             ELSE group_readings_by_station_and_interval(
                      service, weather_data, intervals, start_time, end_time, i + 1,
                      IF g.value = None THEN grouped ELSE Append(grouped, g.value[1]))

(* the values grouped under a station and an interval, in list order *)
RECURSIVE ValuesAt(_, _, _, _)
ValuesAt(grouped, station_id, interval_time, i) ==
    IF i > Len(grouped) THEN <<>>
    ELSE (IF grouped[i].station_id = station_id /\ grouped[i].interval = interval_time
          THEN <<grouped[i].value>> ELSE <<>>)
         \o ValuesAt(grouped, station_id, interval_time, i + 1)

(* sum(values) *)
RECURSIVE SumValues(_, _)
SumValues(values, i) ==
    IF i > Len(values) THEN 0 ELSE values[i] + SumValues(values, i + 1)

(* the classifier of the service, from MetricsService *)
ClassifyAverage(service, average) ==
    IF service = "precipitation" THEN get_rainfall_level(average) ELSE get_alert_level(average)

(* one data point of _format_interval_data_with_labels; average is the      *)
(* exact mean that y rounds for display                                     *)
DataPoint(service, interval_time, values) ==
    LET average == IF values # <<>> THEN Ratio(SumValues(values, 1), Len(values)) ELSE Ratio(0, 1)
    IN  [timestamp |-> interval_time,
         hour |-> HourOf(interval_time),
         average |-> average,
         level |-> ClassifyAverage(service, average),
         count |-> Len(values),
         show_label |-> HourOf(interval_time) % LABEL_INTERVAL_HOURS = 0]

(* _format_interval_data_with_labels *)
format_interval_data_with_labels(service, intervals, grouped, station_id) ==
    [k \in 1..Len(intervals) |->
        DataPoint(service, intervals[k], ValuesAt(grouped, station_id, intervals[k], 1))]

(* get_24hour_intervals_per_station(weather_data, sites, target_date) of    *)
(* the service, at time t: the mapping from site id to its data points, or  *)
(* the exception the call raises                                            *)
get_24hour_intervals_per_station(service, weather_data, sites, target_date, t) ==
    LET display_date == DisplayDate(weather_data, target_date, t)
    IN  IF display_date.exc # "none"
        THEN [fn |-> "get_24hour_intervals_per_station", exc |-> display_date.exc, result |-> <<>>]
        ELSE
          LET start_time == ReplaceHour(display_date.value, START_HOUR)
              end_time == ReplaceHour(display_date.value, END_HOUR)
              intervals == create_hourly_intervals(start_time, end_time)
              grouped == group_readings_by_station_and_interval(
                             service, weather_data, intervals, start_time, end_time, 1, <<>>)
          IN  IF grouped.exc # "none"
              THEN [fn |-> "get_24hour_intervals_per_station", exc |-> grouped.exc, result |-> <<>>]
              ELSE [fn |-> "get_24hour_intervals_per_station", exc |-> "none",
                    result |-> [site \in {sites[j].id : j \in 1..Len(sites)} |->
                        format_interval_data_with_labels(service, intervals, grouped.value, site)]]

(* the loop over data_points of get_summary_statistics:                     *)
(* alert_counts[point.alert_level] += 1                                     *)
RECURSIVE CountAlertLevels(_, _, _)
CountAlertLevels(counts, data_points, k) ==
    IF k > Len(data_points) THEN counts
    ELSE CountAlertLevels(IncrementCount(counts, data_points[k].level), data_points, k + 1)

(* the first of critical, warning, alert, advisory with a count, or normal *)
HighestCounted(alert_counts) ==
    IF alert_counts["critical"] > 0 THEN "critical"
    ELSE IF alert_counts["warning"] > 0 THEN "warning"
    ELSE IF alert_counts["alert"] > 0 THEN "alert"
    ELSE IF alert_counts["advisory"] > 0 THEN "advisory"
    ELSE "normal"

(* WaterLevelService.get_summary_statistics: the alert statistics of one    *)
(* station's data points.  average_level, max_level and min_level are       *)
(* arithmetic over the displayed y values and are not represented.          *)
get_summary_statistics(data_points) ==
    IF data_points = <<>>
    THEN [highest_alert_level |-> "normal", critical_intervals |-> 0,
          warning_intervals |-> 0, alert_intervals |-> 0, total_intervals |-> 0]
    ELSE LET alert_counts ==
                 CountAlertLevels([level \in {"critical", "warning", "alert", "advisory", "normal"} |-> 0],
                                  data_points, 1)
         IN  [highest_alert_level |-> HighestCounted(alert_counts),
              critical_intervals |-> alert_counts["critical"],
              warning_intervals |-> alert_counts["warning"],
              alert_intervals |-> alert_counts["alert"],
              total_intervals |-> Len(data_points)]

(* _format_water_level_response(per_station_data, sites, service): the data *)
(* points of every station that is a site, with their statistics            *)
format_water_level_response(per_station_data, sites) ==
    [fn |-> "format_water_level_response", exc |-> "none",
     result |-> [station_id \in DOMAIN per_station_data \cap {sites[j].id : j \in 1..Len(sites)} |->
                    [data |-> per_station_data[station_id],
                     statistics |-> get_summary_statistics(per_station_data[station_id])]]]

(* The longest reading list of the model *)
MaxReadings == 2

(* midnight of the day the readings of the model belong to *)
Midnight == SecondsPerDay

(* the time of the call: 09:00 of that day *)
IntervalNow == Midnight + 9 * SecondsPerHour

(* timestamps: 00:00:00, 00:59:59.5, 01:00:00, 12:00:00, 23:00:00, 23:30:00 *)
(* and the next midnight, in the formats the parser accepts                 *)
SlotStamps ==
    { Stamp("space", Midnight),
      Stamp("frac", Midnight + SecondsPerHour - 1),
      Stamp("space", Midnight + SecondsPerHour),
      Stamp("iso", Midnight + 23 * SecondsPerHour + 1800),
      Stamp("space", Midnight + 24 * SecondsPerHour) }

GoodReading(station_id, stamp) == IntervalReading(station_id, stamp, NoStamp, Num(50), Num(75))

IntervalReadings ==
    {GoodReading(id, ts) : id \in {"St1", "St2"}, ts \in SlotStamps}
    \cup {GoodReading("St1", Stamp("space", Midnight + h * SecondsPerHour)) : h \in {12, 23}}
    \cup {IntervalReading("St1", Stamp("space", Midnight + SecondsPerHour), NoStamp, v[1], v[2]) :
            v \in { <<Num(0), Num(0)>>, <<NumStr(300), NumStr(150)>>, <<Num(0 - 1), Num(151)>>,
                    <<Num(50), Num(8000)>>,
                    <<Num(400), Num(0 - 1)>>, <<Null, Null>>, <<BadStr, BadStr>> }}
    \cup {GoodReading("St1", ts) :
            ts \in { Stamp("space", Midnight - 1), NoStamp, Stamp("garbage", Midnight),
                     Stamp("number", Midnight) }}
    \cup { IntervalReading("St1", NoStamp, Stamp("isoZ", Midnight + 24 * SecondsPerHour + 1),
                           Num(50), Num(75)),
           GoodReading("", Stamp("space", Midnight + SecondsPerHour)),
           IntervalNotADict }

ReadingLists == UNION {[1..n -> IntervalReadings] : n \in 0..MaxReadings}

(* target_date: not given, 12:34 of the day, or the next midnight *)
TargetDates ==
    {None, Some(Midnight + 12 * SecondsPerHour + 34 * 60), Some(Midnight + SecondsPerDay)}

IntervalInputs ==
    {[fn |-> "get_24hour_intervals_per_station", service |-> sv, weather_data |-> w,
      sites |-> Sites, target_date |-> d] :
        sv \in {"precipitation", "water_level"}, w \in ReadingLists, d \in TargetDates}

InitIntervals ==
    /\ cache = WeatherCache
    /\ now = IntervalNow
    /\ call = NoCall
    /\ hist = NoHist
    /\ lock = NoThread
    /\ pc = [t \in Threads |-> "idle"]
    /\ loc = [t \in Threads |-> NoLocals]
    /\ writer = NoWriter
    /\ inp \in IntervalInputs
    /\ out = NoOutput

(* a chart route asks a service for the 24-hour series *)
CallGet24HourIntervals ==
    /\ inp.fn = "get_24hour_intervals_per_station"
    /\ out = NoOutput
    /\ out' = get_24hour_intervals_per_station(
                  inp.service, inp.weather_data, inp.sites, inp.target_date, now)
    /\ UNCHANGED <<cache, now, call, hist, thr, inp>>

(* the water-level route, requested without a station filter, after its    *)
(* call of the service returned: the response with the statistics of each   *)
(* station                                                                  *)
FormatWaterLevelResponse ==
    /\ inp.fn = "get_24hour_intervals_per_station"
    /\ inp.service = "water_level"
    /\ out # NoOutput
    /\ out.fn = "get_24hour_intervals_per_station"
    /\ out.exc = "none"
    /\ out' = format_water_level_response(out.result, inp.sites)
    /\ UNCHANGED <<cache, now, call, hist, thr, inp>>

NextIntervals == CallGet24HourIntervals \/ FormatWaterLevelResponse

SpecIntervals == InitIntervals /\ [][NextIntervals]_vars

----------------------------------------------------------------------------
(* Claims about the 24-hour series *)

IsIntervalCall == out.fn = "get_24hour_intervals_per_station"
IsIntervalResult == IsIntervalCall /\ out.exc = "none"

SiteIds == {Sites[j].id : j \in 1..Len(Sites)}

(* the instant of reading i, when its timestamp parses *)
Parseable(i) ==
    /\ inp.weather_data[i].dict
    /\ interval_parse_timestamp(TimestampOf(inp.weather_data[i])).exc = "none"
    /\ interval_parse_timestamp(TimestampOf(inp.weather_data[i])).value # None
InstantOf(i) == interval_parse_timestamp(TimestampOf(inp.weather_data[i])).value[1]

(* reading i names the station and carries a valid value of the metric:     *)
(* a number, at least 0 for rainfall, within [0, 15] for the water level    *)
ValidFor(i, site) ==
    LET metric == MetricOf(inp.service, inp.weather_data[i])
    IN  /\ inp.weather_data[i].dict
        /\ inp.weather_data[i].StationID = site
        /\ metric.t \in {"float", "numstr"}
        /\ IF inp.service = "precipitation" THEN metric.n >= 0
           ELSE metric.n >= 0 /\ metric.n <= 150

(* the valid readings of a station with an instant from lo up to hi,        *)
(* hi itself included or not                                                *)
ValidBetween(site, lo, hi, closed) ==
    {i \in 1..Len(inp.weather_data) :
        /\ Parseable(i) /\ ValidFor(i, site)
        /\ lo <= InstantOf(i)
        /\ IF closed THEN InstantOf(i) <= hi ELSE InstantOf(i) < hi}

RECURSIVE CountSum(_, _)
CountSum(points, k) ==
    IF k > Len(points) THEN 0 ELSE points[k].count + CountSum(points, k + 1)

(* C18: for any reading list and any display date, both services return,   *)
(* for every configured site, exactly 24 slots for the hours 0 to 23 in    *)
(* order, one hour apart, with the same slot start instants at all         *)
(* stations.                                                               *)
C18_Always24Slots ==
    IsIntervalCall =>
        /\ out.exc = "none"
        /\ DOMAIN out.result = SiteIds
        /\ \A site \in SiteIds :
              /\ Len(out.result[site]) = 24
              /\ \A k \in 1..24 :
                    /\ out.result[site][k].hour = k - 1
                    /\ out.result[site][k].timestamp
                          = out.result[site][1].timestamp + (k - 1) * 60 * 60
                    /\ out.result[site][k].timestamp = out.result["St1"][k].timestamp

(* C19: every reading with a parseable timestamp inside the closed window  *)
(* [slot 0 start, slot 23 start + 1 hour], a station id and a valid value  *)
(* is assigned to exactly one slot of its station: per station the 24 slot *)
(* counts sum to the number of such readings, a reading exactly at slot 23 *)
(* start + 1 hour included.                                                *)
C19_ClosedWindowCountedOnce ==
    IsIntervalResult =>
        \A site \in SiteIds :
            LET start == out.result[site][1].timestamp
            IN  CountSum(out.result[site], 1)
                    = Cardinality(ValidBetween(site, start, start + 24 * 60 * 60, TRUE))

(* C20: a valid reading exactly on the boundary between slot h and slot    *)
(* h+1 (h in 0..22) is counted in slot h+1 and not in slot h: each slot    *)
(* counts the valid readings of its half-open hour, lower end included.    *)
C20_BoundaryInLaterSlot ==
    IsIntervalResult =>
        \A site \in SiteIds : \A h \in 0..22 :
            LET boundary == out.result[site][h + 2].timestamp
            IN  /\ out.result[site][h + 2].count
                      = Cardinality(ValidBetween(site, boundary, boundary + 60 * 60, FALSE))
                /\ out.result[site][h + 1].count
                      = Cardinality(ValidBetween(site, boundary - 60 * 60, boundary, FALSE))

(* a reading of St1 at 01:00:00 is in slot 1, and slot 0 is empty *)
C20_Witness ==
    /\ IsIntervalResult
    /\ \E i \in 1..Len(inp.weather_data) :
          /\ Parseable(i) /\ ValidFor(i, "St1")
          /\ InstantOf(i) = out.result["St1"][2].timestamp
    /\ out.result["St1"][2].count >= 1
    /\ out.result["St1"][1].count = 0

(* the value of reading i for the service's metric, in tenths *)
MetricValue(i) == MetricOf(inp.service, inp.weather_data[i]).n

RECURSIVE MetricSum(_)
MetricSum(S) ==
    IF S = {} THEN 0
    ELSE LET i == CHOOSE j \in S : TRUE IN MetricValue(i) + MetricSum(S \ {i})

(* the valid readings of a station inside the hour of its slot k *)
ValidInSlot(site, k) ==
    ValidBetween(site, out.result[site][k].timestamp,
                 out.result[site][k].timestamp + 60 * 60, FALSE)

(* C21: a reading whose water level is outside [0, 15], whose hourly       *)
(* rainfall is negative or whose metric value is not a number contributes  *)
(* to no slot's value or count (dropped, not clamped), while 0 and 15 and  *)
(* a rainfall of 0 are accepted: every slot's count and mean are those of  *)
(* the valid readings of its hour.                                         *)
C21_InvalidValuesDropped ==
    IsIntervalResult =>
        \A site \in SiteIds : \A k \in 1..24 :
            LET S == ValidInSlot(site, k)
                point == out.result[site][k]
            IN  /\ point.count = Cardinality(S)
                /\ point.average.n * (IF S = {} THEN 1 ELSE Cardinality(S))
                      = MetricSum(S) * point.average.d

(* a slot with a reading at the lower bound 0 and an out-of-range reading:  *)
(* only the former is counted                                               *)
C21_Witness ==
    /\ IsIntervalResult
    /\ Len(inp.weather_data) = 2
    /\ Parseable(1) /\ Parseable(2)
    /\ InstantOf(1) = out.result["St1"][2].timestamp
    /\ InstantOf(2) = out.result["St1"][2].timestamp
    /\ ValidFor(1, "St1") /\ MetricValue(1) = 0
    /\ inp.weather_data[2].StationID = "St1"
    /\ MetricOf(inp.service, inp.weather_data[2]).t = "float"
    /\ (MetricValue(2) < 0 \/ MetricValue(2) > 150)
    /\ out.result["St1"][2].count = 1
    /\ out.result["St1"][2].average = Ratio(0, 1)

(* reading i has a timestamp that is missing, empty, not a string, or a     *)
(* string in none of the accepted formats                                   *)
BadTimestamp(i) ==
    /\ inp.weather_data[i].dict
    /\ TimestampOf(inp.weather_data[i]).form \in {"missing", "number", "datetime", "garbage"}

(* C22: a reading whose timestamp is missing, empty, not a string, or in   *)
(* none of the accepted formats contributes to no slot of any station, and *)
(* the aggregation completes without raising and returns the full 24-slot  *)
(* result built from the remaining readings.                               *)
C22_BadTimestampSkipped ==
    (IsIntervalCall /\ \E i \in 1..Len(inp.weather_data) : BadTimestamp(i)) =>
        /\ out.exc = "none"
        /\ DOMAIN out.result = SiteIds
        /\ \A site \in SiteIds :
              /\ Len(out.result[site]) = 24
              /\ \A k \in 1..24 :
                    out.result[site][k].count
                        = Cardinality({i \in ValidInSlot(site, k) : ~BadTimestamp(i)})

(* C23: a slot that no reading contributes to has count 0, value 0 and a   *)
(* category reflecting no data: rainfall intensity no_data in the          *)
(* precipitation series, alert level normal in the water-level series.     *)
C23_EmptySlotNoData ==
    IsIntervalResult =>
        \A site \in SiteIds : \A k \in 1..24 :
            out.result[site][k].count = 0 =>
                /\ out.result[site][k].average.n = 0
                /\ out.result[site][k].level
                      = (IF inp.service = "precipitation" THEN "no_data" ELSE "normal")

----------------------------------------------------------------------------
(* Further properties of the cache on its own (specification SpecCache) *)

(* the backoff windows the claim lists, by error count (none below 3) *)
BackoffTable(n) ==
    CASE n < 3 -> 0 [] n = 3 -> 60 [] n = 4 -> 120 [] n = 5 -> 240 [] OTHER -> 300

(* C24: when record_error() brings the consecutive-error counter to n: for *)
(* n < 3 backoff-until is left unset; for n >= 3 it is set to              *)
(* now + min(60 * 2^(n-3), 300) seconds, that is 60, 120, 240, 300, 300,   *)
(* ... seconds: a window never exceeds 300 s and never shrinks as n grows. *)
C24_BackoffWindow ==
    [][(call'.op = "record_error" /\ cache'.fetch_errors = cache.fetch_errors + 1)
         => LET n == cache'.fetch_errors
            IN  IF n < 3
                THEN cache'.backoff_until = None
                ELSE /\ cache'.backoff_until = Some(now + Min(60 * Pow2(n - 3), 300))
                     /\ cache'.backoff_until[1] - now = BackoffTable(n)
                     /\ cache'.backoff_until[1] - now <= 300
                     /\ BackoffTable(n) >= BackoffTable(n - 1)]_vars

(* the sixth consecutive error: the window is capped at 300 s *)
C24_Witness ==
    /\ call.op = "record_error"
    /\ cache.fetch_errors = 6
    /\ cache.backoff_until = Some(now + 300)

(* C25: set(data, success) always overwrites the cached reading set and    *)
(* the last-fetch time; it resets the error counter to 0, clears           *)
(* backoff-until and updates the last-success time only when success is    *)
(* true and data is non-empty, and otherwise leaves those three unchanged. *)
C25_SetFrame ==
    [][\A d \in CacheDataSets, success \in BOOLEAN :
          (call'.op = "set" /\ CallSet(d, success)) =>
              /\ cache'.data = Some(d)
              /\ cache'.last_fetch = Some(now)
              /\ IF success /\ d # <<>>
                 THEN /\ cache'.fetch_errors = 0
                      /\ cache'.backoff_until = None
                      /\ cache'.last_success = Some(now)
                 ELSE /\ cache'.fetch_errors = cache.fetch_errors
                      /\ cache'.backoff_until = cache.backoff_until
                      /\ cache'.last_success = cache.last_success]_vars

(* set() with success true and an empty list, during a backoff: the data   *)
(* and the fetch time are overwritten, the error state is kept             *)
C25_Witness ==
    /\ call.op = "set"
    /\ cache.data = Some(<<>>)
    /\ cache.last_fetch = Some(now)
    /\ cache.fetch_errors = 3
    /\ cache.backoff_until # None
    /\ hist.errs = 0
    /\ cache.last_success # None /\ cache.last_success[1] < now

(* C26: in every reachable cache state, backoff-until is set if and only   *)
(* if the error counter is at least 3, and the error counter is the number *)
(* of record_error() calls since the last set() with success true and      *)
(* non-empty data.                                                         *)
C26_BackoffIffThreeErrors ==
    /\ (cache.backoff_until # None) <=> (cache.fetch_errors >= 3)
    /\ cache.fetch_errors = hist.since_commit

(* three errors survive a set() that does not commit *)
C26_Witness ==
    /\ call.op = "set"
    /\ cache.fetch_errors = 3
    /\ hist.since_commit = 3
    /\ cache.backoff_until # None

----------------------------------------------------------------------------
(* Recovery of the upstream: callers keep calling fetch_weather_data as     *)
(* time advances, and at some instant the upstream recovers and from then   *)
(* on answers every request with a non-empty well-formed payload.           *)

(* the answers of a recovered upstream *)
GoodOutcomes ==
    {o \in Outcomes : WellFormed(o) /\ o.items # <<>> /\ ~SanitizeRaises(o.items)}

(* the latest instant of a recovery that leaves the longest backoff window  *)
(* room to expire before the clock of the model stops                       *)
HealBy == MaxNow - stale_ttl_seconds

(* the upstream recovers *)
Heal ==
    /\ hist.healed = None
    /\ now <= HealBy
    /\ hist' = [hist EXCEPT !.healed = Some(cache.fetch_errors)]
    /\ call' = NoCall
    /\ UNCHANGED <<cache, now, thr, pure>>

(* a call of fetch_weather_data answered by the upstream as it is *)
LiveCall(force_refresh, o) ==
    /\ hist.healed # None => o \in GoodOutcomes
    /\ CallFetchWeatherData(force_refresh, o)

NextLive ==
    \/ \E d \in TickSteps : Tick(d)
    \/ Heal
    \/ \E force_refresh \in BOOLEAN, o \in Outcomes : LiveCall(force_refresh, o)

(* time advances, and non-forced calls keep arriving *)
SpecLive ==
    /\ Init /\ [][NextLive]_vars
    /\ WF_vars(\E d \in TickSteps : Tick(d))
    /\ WF_vars(\E o \in Outcomes : LiveCall(FALSE, o))

(* a request made since the recovery was answered and committed *)
Recovered ==
    /\ hist.recovered
    /\ cache.data \in {Some(SanitizeAll(o.items)) : o \in GoodOutcomes}
    /\ cache.fetch_errors = 0
    /\ cache.backoff_until = None

(* C27: if non-forced fetch_weather_data calls keep arriving as time       *)
(* advances and from some point on the upstream answers every request with *)
(* a non-empty well-formed payload, then eventually an upstream request is *)
(* made and the cache holds that payload with error counter 0 and no       *)
(* backoff: no backoff window suppresses fetching for ever.                *)
C27_EventuallyRecovers == (hist.healed # None) ~> Recovered

(* the upstream recovered during a backoff of three errors that had cached  *)
(* data to serve, and a later request was committed                         *)
C27_Witness ==
    /\ Recovered
    /\ hist.healed = Some(3)
    /\ IsFetchCall /\ ~call.force /\ call.requested /\ call.did_set
    /\ cache.last_success = Some(now)
    /\ now >= 60

----------------------------------------------------------------------------
(* Further properties of concurrent callers (specification SpecThreads) *)

(* the threads whose upstream request is in flight *)
InFlight == {t \in Threads : pc[t] = "http"}

(* C28: when several threads call fetch_weather_data(force_refresh=false)  *)
(* concurrently on an expired or empty cache, at most one upstream request *)
(* is in flight at any time.                                               *)
C28_SingleRequestInFlight ==
    Cardinality({t \in InFlight : ~loc[t].force}) <= 1

(* C29: the cached reading set never goes back to an older upstream        *)
(* response: a successful request issued earlier that completes later does *)
(* not overwrite the result committed by a request issued after it.        *)
C29_NoOlderResponseCommitted ==
    [][\A t \in Threads :
          (pc[t] = "set_44" /\ pc'[t] = "set_45")
              => (writer.data = NoThread \/ loc[t].issued_at >= writer.issued_at)]_vars

----------------------------------------------------------------------------
(* The alert levels of the water-level series (specification SpecIntervals) *)

IsWaterResult == IsIntervalResult /\ inp.service = "water_level"
IsWaterResponse == out.fn = "format_water_level_response"

(* C30: for any reading list, every slot returned by the water-level       *)
(* service has alert level normal, and its summary statistics report       *)
(* highest_alert_level normal with zero critical, warning and alert        *)
(* intervals: only water levels within [0, 15] are accepted and a slot     *)
(* value is their mean, which is below the lowest alert breakpoint 700.    *)
C30_WaterLevelAlwaysNormal ==
    /\ IsWaterResult =>
          \A site \in SiteIds : \A k \in 1..Len(out.result[site]) :
              LET point == out.result[site][k]
              IN  /\ point.level = "normal"
                  /\ Le(Ratio(MIN_VALID_WATER_LEVEL, 1), point.average)
                  /\ Le(point.average, Ratio(MAX_VALID_WATER_LEVEL, 1))
                  /\ ~Ge(point.average, WATER_ADVISORY)
    /\ IsWaterResponse =>
          \A site \in DOMAIN out.result :
              LET station == out.result[site]
              IN  /\ \A k \in 1..Len(station.data) : station.data[k].level = "normal"
                  /\ station.statistics.highest_alert_level = "normal"
                  /\ station.statistics.critical_intervals = 0
                  /\ station.statistics.warning_intervals = 0
                  /\ station.statistics.alert_intervals = 0

(* St1 reports 800.0 and 15.0 in the hour from 01:00: the slot holds the    *)
(* latter only, and the statistics of its 24 slots are normal               *)
C30_Witness ==
    /\ IsWaterResponse
    /\ Len(inp.weather_data) = 2
    /\ \E i \in 1..2 :
          /\ inp.weather_data[i].dict
          /\ inp.weather_data[i].StationID = "St1"
          /\ inp.weather_data[i].WaterLevel = Num(8000)
          /\ Parseable(i)
          /\ InstantOf(i) = out.result["St1"].data[2].timestamp
    /\ out.result["St1"].data[2].count = 1
    /\ out.result["St1"].data[2].average = Ratio(MAX_VALID_WATER_LEVEL, 1)
    /\ out.result["St1"].data[2].level = "normal"
    /\ out.result["St1"].statistics.highest_alert_level = "normal"
    /\ out.result["St1"].statistics.alert_intervals = 0
    /\ out.result["St1"].statistics.total_intervals = 24

====
